---- MODULE Spec2Model ----
(***************************************************************************)
(* XFetch probabilistic early expiration (src/src/lib.rs).                 *)
(*                                                                         *)
(* Durations and Instants are counted in microseconds.  An f32 product is  *)
(* kept as an exact fraction until round(); the three non-finite classes   *)
(* of f32 (+inf, -inf, NaN) are carried symbolically.  A draw of           *)
(* OpenClosed01 is (k+1) * 2^-24; the model draws the powers of two        *)
(* r = 2^-e, e in 0..24, whose -ln is e * ln 2.                            *)
(*                                                                         *)
(* The float-to-integer cast `as u64` saturates (0 for NaN and negative    *)
(* values, u64::MAX above the range), and Instant + Duration of u64::MAX   *)
(* milliseconds is representable: an instant past every expiry.            *)
(***************************************************************************)
EXTENDS Integers, FiniteSets, Sequences, TLC

(***************************************************************************)
(* Bounds of the model.                                                    *)
(***************************************************************************)
MaxTicks == 2
MaxSetters == 2
MaxCalls == 2

(***************************************************************************)
(* Input sets.                                                             *)
(***************************************************************************)
Values == {41, 42}
Readers == {1, 2}
\* elapsed time of the value-producing closure: just under a millisecond,
\* one millisecond, ten seconds
ComputeCosts == {999, 1000, 10000000}
\* results of the with_delta closure: just under 1 ms, 10 s
DeltaArgs == {999, 10000000}
\* results of the with_ttl closure: 10 ms, 120 s, 1000 s
TtlArgs == {10000, 120000000, 1000000000}
\* clock advances between calls: 65 s
TickSteps == {65000000}
\* exponents e of the draws r = 2^-e: 1.0, 2^-12, 2^-24 (the least)
MinDrawExp == 24
Draws == {0, 12, MinDrawExp}

(***************************************************************************)
(* f32 values of beta.                                                     *)
(***************************************************************************)
Fin(n, d) == [cls |-> "fin", num |-> n, den |-> d]
PInf == [cls |-> "pinf", num |-> 1, den |-> 1]
NInf == [cls |-> "ninf", num |-> -1, den |-> 1]
NaN == [cls |-> "nan", num |-> 0, den |-> 1]
DEFAULT_BETA == Fin(1, 1)
BetaArgs == {Fin(-1, 1), Fin(1, 2), Fin(9, 10), Fin(2, 1), PInf, NInf, NaN}

(***************************************************************************)
(* Option<Instant>, Option<T>.                                             *)
(***************************************************************************)
None == [some |-> FALSE, at |-> 0]
Some(t) == [some |-> TRUE, at |-> t]

(***************************************************************************)
(* CacheEntryBuilder                                                       *)
(***************************************************************************)
with_beta(self, beta) == [self EXCEPT !.beta = beta]

with_delta(self, d) == [self EXCEPT !.delta = d]

\* with_ttl storing the ttl itself, the clock reading left out
with_ttl_noclock(self, clock, ttl) == [self EXCEPT !.expiry = Some(ttl)]

with_ttl(self, clock, ttl) == [self EXCEPT !.expiry = Some(clock + ttl)]

\* build() taking the default beta instead of the builder's
build_default_beta(self) ==
    [value |-> self.value, delta |-> self.delta,
     beta |-> DEFAULT_BETA, expiry |-> self.expiry]

build(self) ==
    [value |-> self.value, delta |-> self.delta,
     beta |-> self.beta, expiry |-> self.expiry]

(***************************************************************************)
(* CacheEntry                                                              *)
(***************************************************************************)
new(value, recompute_time) ==
    [value |-> value, delta |-> recompute_time,
     beta |-> DEFAULT_BETA, expiry |-> None]

\* as_millis rounding up instead of dropping the rest
as_millis_ceil(d) == (d + 999) \div 1000

\* Duration::as_millis: whole milliseconds, the rest dropped
as_millis(d) == d \div 1000

\* Duration::from_millis
from_millis(ms) == ms * 1000

\* ln 2 in thousandths
Ln2Milli == 693

\* the draws taken from [0, 1): the largest falls short of 1.0
NegLn_short(e) == (e + 1) * Ln2Milli

\* -rand.ln() for rand = 2^-e, in thousandths
NegLn(e) == e * Ln2Milli

\* f32::round of p / (2 * h), h > 0: to the nearest, halves away from zero
Round(p, h) ==
    IF p >= 0 THEN (p + h) \div (2 * h)
    ELSE -(((-p) + h) \div (2 * h))

\* the product cast to a signed integer: a negative value is kept
horizon_signed(delta_ms, beta, e) ==
    CASE beta.cls = "nan" -> [sat |-> FALSE, ms |-> 0]
      [] beta.cls = "pinf" ->
            IF delta_ms = 0 \/ NegLn(e) = 0 THEN [sat |-> FALSE, ms |-> 0]
            ELSE [sat |-> TRUE, ms |-> 0]
      [] beta.cls = "ninf" -> [sat |-> FALSE, ms |-> 0]
      [] OTHER ->
            [sat |-> FALSE,
             ms |-> Round(delta_ms * beta.num * NegLn(e), beta.den * 500)]

\* delta * beta * rand.ln(), the minus sign forgotten
horizon_noneg(delta_ms, beta, e) ==
    CASE beta.cls = "nan" -> [sat |-> FALSE, ms |-> 0]
      [] beta.cls = "pinf" -> [sat |-> FALSE, ms |-> 0]
      [] beta.cls = "ninf" ->
            IF delta_ms = 0 \/ NegLn(e) = 0 THEN [sat |-> FALSE, ms |-> 0]
            ELSE [sat |-> TRUE, ms |-> 0]
      [] OTHER ->
            LET r == Round(-(delta_ms * beta.num * NegLn(e)), beta.den * 500)
            IN  [sat |-> FALSE, ms |-> IF r < 0 THEN 0 ELSE r]

\* the magnitude of the product taken before the cast
horizon_abs(delta_ms, beta, e) ==
    CASE beta.cls = "nan" -> [sat |-> FALSE, ms |-> 0]
      [] beta.cls \in {"pinf", "ninf"} ->
            IF delta_ms = 0 \/ NegLn(e) = 0 THEN [sat |-> FALSE, ms |-> 0]
            ELSE [sat |-> TRUE, ms |-> 0]
      [] OTHER ->
            LET r == Round(delta_ms * beta.num * NegLn(e), beta.den * 500)
            IN  [sat |-> FALSE, ms |-> IF r < 0 THEN -r ELSE r]

\* (delta * beta * -rand.ln()).round() as u64, in milliseconds.
\* sat: the cast saturated at u64::MAX.  A NaN and a negative value cast to 0.
horizon(delta_ms, beta, e) ==
    CASE beta.cls = "nan" -> [sat |-> FALSE, ms |-> 0]
      [] beta.cls = "pinf" ->
            \* 0 * inf and inf * 0 are NaN
            IF delta_ms = 0 \/ NegLn(e) = 0 THEN [sat |-> FALSE, ms |-> 0]
            ELSE [sat |-> TRUE, ms |-> 0]
      [] beta.cls = "ninf" -> [sat |-> FALSE, ms |-> 0]
      [] OTHER ->
            LET r == Round(delta_ms * beta.num * NegLn(e), beta.den * 500)
            IN  [sat |-> FALSE, ms |-> IF r < 0 THEN 0 ELSE r]

\* (now + xfetch) >= expiry
instant_ge(clock, xfetch, expiry) ==
    xfetch.sat \/ clock + from_millis(xfetch.ms) >= expiry

\* an absent expiry read as the epoch
is_expired_with_rng_epoch(self, clock, e) ==
    instant_ge(clock, horizon(as_millis(self.delta), self.beta, e), self.expiry.at)

\* the plain time-to-live test, the early-expiry horizon left out
is_expired_with_rng_noearly(self, clock, e) ==
    IF self.expiry.some THEN clock >= self.expiry.at ELSE FALSE

is_expired_with_rng(self, clock, e) ==
    IF self.expiry.some
    THEN instant_ge(clock, horizon(as_millis(self.delta), self.beta, e), self.expiry.at)
    ELSE FALSE

is_eternal(self) == ~self.expiry.some

get(self) == self.value

into_inner(self) == self.value

(***************************************************************************)
(* State.                                                                  *)
(***************************************************************************)
VARIABLES
    phase,      \* "none", "builder", "entry", "consumed"
    now,        \* Instant::now()
    ticks,      \* clock advances so far
    builder,    \* the CacheEntryBuilder, in phase "builder"
    entry,      \* the CacheEntry, in phase "entry"
    hist,       \* what the builder calls were given
    last,       \* the last query on the entry and its result
    got,        \* per reader, the payload its last get() saw
    inner       \* the payload into_inner() returned

vars == <<phase, now, ticks, builder, entry, hist, last, got, inner>>

Absent == [value |-> 0, delta |-> 0, beta |-> DEFAULT_BETA, expiry |-> None]

NoBeta == [some |-> FALSE, at |-> DEFAULT_BETA]

NoHist ==
    [value |-> 0, measured |-> 0, beta |-> NoBeta, delta |-> None,
     ttlAt |-> None, ttl |-> None, setters |-> 0]

NoCall ==
    [op |-> "none", reader |-> 0, draw |-> 0, at |-> 0, result |-> FALSE,
     calls |-> 0]

Init ==
    /\ phase = "none"
    /\ now = 0
    /\ ticks = 0
    /\ builder = Absent
    /\ entry = Absent
    /\ hist = NoHist
    /\ last = NoCall
    /\ got = [r \in Readers |-> None]
    /\ inner = None

\* time passes
Tick ==
    /\ ticks < MaxTicks
    /\ \E s \in TickSteps : now' = now + s
    /\ ticks' = ticks + 1
    /\ UNCHANGED <<phase, builder, entry, hist, last, got, inner>>

\* CacheEntry::new(f): f runs for c microseconds and returns v
New ==
    /\ phase = "none"
    /\ \E v \in Values, c \in ComputeCosts :
        /\ now' = now + c
        /\ builder' = new(v, (now + c) - now)
        /\ hist' = [NoHist EXCEPT !.value = v, !.measured = c]
    /\ phase' = "builder"
    /\ UNCHANGED <<ticks, entry, last, got, inner>>

WithBeta ==
    /\ phase = "builder"
    /\ hist.setters < MaxSetters
    /\ \E b \in BetaArgs :
        /\ builder' = with_beta(builder, b)
        /\ hist' = [hist EXCEPT !.beta = [some |-> TRUE, at |-> b],
                                !.setters = @ + 1]
    /\ UNCHANGED <<phase, now, ticks, entry, last, got, inner>>

WithDelta ==
    /\ phase = "builder"
    /\ hist.setters < MaxSetters
    /\ \E d \in DeltaArgs :
        /\ builder' = with_delta(builder, d)
        /\ hist' = [hist EXCEPT !.delta = Some(d), !.setters = @ + 1]
    /\ UNCHANGED <<phase, now, ticks, entry, last, got, inner>>

WithTtl ==
    /\ phase = "builder"
    /\ hist.setters < MaxSetters
    /\ \E t \in TtlArgs :
        /\ builder' = with_ttl(builder, now, t)
        /\ hist' = [hist EXCEPT !.ttlAt = Some(now), !.ttl = Some(t),
                                !.setters = @ + 1]
    /\ UNCHANGED <<phase, now, ticks, entry, last, got, inner>>

Build ==
    /\ phase = "builder"
    /\ entry' = build(builder)
    /\ builder' = Absent
    /\ phase' = "entry"
    /\ UNCHANGED <<now, ticks, hist, last, got, inner>>

Called(op, r, e, res) ==
    [op |-> op, reader |-> r, draw |-> e, at |-> now, result |-> res,
     calls |-> last.calls + 1]

\* entry.is_expired(), the generator yielding the draw 2^-e
IsExpired ==
    /\ phase = "entry"
    /\ last.calls < MaxCalls
    /\ \E r \in Readers, e \in Draws :
        last' = Called("is_expired", r, e, is_expired_with_rng(entry, now, e))
    /\ UNCHANGED <<phase, now, ticks, builder, entry, hist, got, inner>>

IsEternal ==
    /\ phase = "entry"
    /\ last.calls < MaxCalls
    /\ \E r \in Readers :
        last' = Called("is_eternal", r, 0, is_eternal(entry))
    /\ UNCHANGED <<phase, now, ticks, builder, entry, hist, got, inner>>

\* get() moving the payload out of the entry
Get_taking ==
    /\ phase = "entry"
    /\ last.calls < MaxCalls
    /\ \E r \in Readers :
        /\ got' = [got EXCEPT ![r] = Some(get(entry))]
        /\ last' = Called("get", r, 0, FALSE)
    /\ entry' = [entry EXCEPT !.value = 0]
    /\ UNCHANGED <<phase, now, ticks, builder, hist, inner>>

Get ==
    /\ phase = "entry"
    /\ last.calls < MaxCalls
    /\ \E r \in Readers :
        /\ got' = [got EXCEPT ![r] = Some(get(entry))]
        /\ last' = Called("get", r, 0, FALSE)
    /\ UNCHANGED <<phase, now, ticks, builder, entry, hist, inner>>

IntoInner ==
    /\ phase = "entry"
    /\ inner' = Some(into_inner(entry))
    /\ entry' = Absent
    /\ phase' = "consumed"
    /\ UNCHANGED <<now, ticks, builder, hist, last, got>>

Next ==
    \/ Tick
    \/ New
    \/ WithBeta
    \/ WithDelta
    \/ WithTtl
    \/ Build
    \/ IsExpired
    \/ IsEternal
    \/ Get
    \/ IntoInner

Spec == Init /\ [][Next]_vars

(***************************************************************************)
(* Properties.                                                             *)
(***************************************************************************)
AllBetas == BetaArgs \cup {DEFAULT_BETA}

\* the last call was is_expired() on the entry, which is still there
Asked == phase = "entry" /\ last.op = "is_expired"

\* C1: an entry built without any with_ttl call is eternal and never
\* expired, whatever the other setters, the draw and the time of the call.
C1_EternalNeverExpires ==
    (phase = "entry" /\ ~hist.ttl.some) =>
        /\ is_eternal(entry)
        /\ last.op = "is_eternal" => last.result
        /\ last.op = "is_expired" => ~last.result

C1_Witness ==
    /\ Asked /\ ~hist.ttl.some
    /\ hist.setters = MaxSetters /\ hist.beta.some /\ hist.delta.some
    /\ last.draw = MinDrawExp /\ last.at > hist.measured
    /\ ~last.result

\* C2 as stated: with a time-to-live and the default beta, the least draw
\* makes is_expired() true however far ahead expiry lies.
C2_MinDrawAlwaysExpired ==
    (Asked /\ entry.expiry.some /\ entry.beta = DEFAULT_BETA
           /\ last.draw = MinDrawExp) => last.result

\* C2 amended: with the default beta and the least draw, is_expired() is
\* true when the time left until expiry is at most 16 times the cost in
\* whole milliseconds, and false when it is more than 17 times that cost.
C2_MinDrawBoundedHorizon ==
    (Asked /\ entry.expiry.some /\ entry.beta = DEFAULT_BETA
           /\ last.draw = MinDrawExp) =>
        LET left == entry.expiry.at - last.at
            cost == (entry.delta \div 1000) * 1000
        IN  /\ left <= 16 * cost => last.result
            /\ left > 17 * cost => ~last.result

\* cost 10 s, ttl 120 s, asked right after construction
C2_Witness ==
    /\ Asked /\ entry.beta = DEFAULT_BETA /\ last.draw = MinDrawExp
    /\ entry.delta = 10000000 /\ entry.expiry.some
    /\ entry.expiry.at - last.at = 120000000
    /\ last.result

\* C3: with the draw 1.0 and the time of the call before expiry,
\* is_expired() is false for any cost and any finite beta.
C3_MaxDrawNotExpired ==
    (Asked /\ entry.expiry.some /\ entry.beta.cls = "fin"
           /\ last.draw = 0 /\ last.at < entry.expiry.at) => ~last.result

C3_Witness ==
    /\ Asked /\ entry.expiry.some /\ entry.beta = Fin(2, 1)
    /\ entry.delta = 10000000
    /\ last.draw = 0 /\ last.at < entry.expiry.at
    /\ entry.expiry.at - last.at <= 10000
    /\ ~last.result

\* C4: a call at or after the expiry instant returns true for every draw,
\* cost and beta; the clock never runs backwards, so every later call does.
C4_ExpiredAfterExpiry ==
    /\ [](Asked /\ entry.expiry.some /\ last.at >= entry.expiry.at
            => last.result)
    /\ [][now' >= now]_vars

C4_Witness ==
    /\ Asked /\ entry.expiry.some /\ last.at >= entry.expiry.at
    /\ last.calls = MaxCalls
    /\ entry.beta = Fin(-1, 1) /\ entry.delta = 10000000
    /\ last.draw = MinDrawExp
    /\ last.result

\* b1 <= b2 as f32 values (NaN compares with nothing)
BetaLE(b1, b2) ==
    /\ b1.cls # "nan" /\ b2.cls # "nan"
    /\ \/ b1.cls = "ninf"
       \/ b2.cls = "pinf"
       \/ /\ b1.cls = "fin" /\ b2.cls = "fin"
          /\ b1.num * b2.den <= b2.num * b1.den

\* h1 <= h2 as durations, sat standing for u64::MAX milliseconds
LeHorizon(h1, h2) == h2.sat \/ (~h1.sat /\ h1.ms <= h2.ms)

\* C5: with the draw, the cost, the time and the expiry of a call held
\* fixed, any beta larger than the entry's gives a horizon no smaller, and
\* a call that returned true returns true with it.
C5_MonotoneInBeta ==
    (Asked /\ entry.expiry.some) =>
        \A b2 \in AllBetas :
            BetaLE(entry.beta, b2) =>
                /\ LeHorizon(horizon(as_millis(entry.delta), entry.beta, last.draw),
                             horizon(as_millis(entry.delta), b2, last.draw))
                /\ last.result
                     => is_expired_with_rng([entry EXCEPT !.beta = b2], last.at, last.draw)

\* a call that is false at beta 1/2 and true at beta 2
C5_Witness ==
    /\ Asked /\ entry.expiry.some /\ entry.beta = Fin(1, 2)
    /\ ~last.result
    /\ is_expired_with_rng([entry EXCEPT !.beta = Fin(2, 1)], last.at, last.draw)

\* C6: no is_expired(), is_eternal() or get() of any reader changes the
\* entry, and the payload into_inner() returns is the one every get() saw.
C6_EntryImmutable ==
    /\ [][(phase = "entry" /\ phase' = "entry") => entry' = entry]_vars
    /\ [](\A r \in Readers :
            /\ (phase = "entry" /\ got[r].some) => got[r].at = entry.value
            /\ (inner.some /\ got[r].some) => got[r].at = inner.at)

C6_Witness ==
    /\ phase = "consumed" /\ inner.some
    /\ \A r \in Readers : got[r].some /\ got[r].at = inner.at
    /\ inner.at = 42

CurrentExpiry == IF phase = "builder" THEN builder.expiry ELSE entry.expiry

\* C7: the expiry is the clock reading of the last with_ttl call plus the
\* ttl its closure returned; no other builder call and no build() changes it.
C7_ExpiryFixedAtWithTtl ==
    phase \in {"builder", "entry"} =>
        CurrentExpiry = IF hist.ttl.some THEN Some(hist.ttlAt.at + hist.ttl.at)
                        ELSE None

\* built after the clock moved on, another setter having followed with_ttl
C7_Witness ==
    /\ phase = "entry" /\ hist.ttl.some /\ hist.beta.some
    /\ last.calls = 0
    /\ now > hist.ttlAt.at
    /\ entry.expiry.at = hist.ttlAt.at + hist.ttl.at
    /\ entry.expiry.at < now + hist.ttl.at

Current == IF phase = "builder" THEN builder ELSE entry

\* C8: builder and entry hold the value of new(), the beta of the last
\* with_beta call or 1.0, and the delta of the last with_delta call or the
\* cost new() measured.
C8_FieldsVerbatim ==
    phase \in {"builder", "entry"} =>
        /\ Current.value = hist.value
        /\ Current.beta = IF hist.beta.some THEN hist.beta.at ELSE DEFAULT_BETA
        /\ Current.delta = IF hist.delta.some THEN hist.delta.at ELSE hist.measured

C8_Witness ==
    /\ phase = "entry" /\ hist.setters = MaxSetters
    /\ hist.beta.some /\ entry.beta = Fin(9, 10)
    /\ hist.ttl.some /\ ~hist.delta.some
    /\ entry.delta = hist.measured /\ entry.value = 42

\* C9: an entry whose measured cost is under a millisecond, with the
\* default beta, is not expired before its expiry, whatever the draw.
C9_TrivialCostNoEarlyExpiry ==
    (Asked /\ entry.expiry.some /\ ~hist.delta.some /\ ~hist.beta.some
           /\ hist.measured < 1000 /\ last.at < entry.expiry.at)
        => ~last.result

C9_Witness ==
    /\ Asked /\ entry.expiry.some /\ ~hist.delta.some /\ ~hist.beta.some
    /\ hist.measured = 999 /\ last.draw = MinDrawExp
    /\ entry.expiry.at - last.at = 10000
    /\ ~last.result

NegativeBeta(b) == b.cls = "ninf" \/ (b.cls = "fin" /\ b.num < 0)

\* C10 as stated: with a negative beta and a draw below 1.0, is_expired()
\* on an entry with an expiry is always true.
C10_NegativeBetaAlwaysExpired ==
    (Asked /\ entry.expiry.some /\ NegativeBeta(entry.beta)
           /\ last.draw > 0) => last.result

\* C10 amended: with a negative beta the horizon is 0, so is_expired() is
\* true exactly when the time of the call has reached expiry.
C10_NegativeBetaNeverEarly ==
    (Asked /\ entry.expiry.some /\ NegativeBeta(entry.beta)
           /\ last.draw > 0) =>
        (last.result <=> last.at >= entry.expiry.at)

C10_Witness ==
    /\ Asked /\ entry.expiry.some /\ entry.beta = Fin(-1, 1)
    /\ entry.delta = 10000000 /\ last.draw = MinDrawExp
    /\ entry.expiry.at - last.at = 120000000
    /\ ~last.result

====
